---- MODULE Spec2Model ----
(***************************************************************************)
(* A model of klmitch/timeit: the running-statistics accumulator Data      *)
(* (Update, Variance, SampleVariance, StdDev, SampleStdDev, TimeIt) and    *)
(* its JSON/YAML adapter (marshaler, toData, UnmarshalJSON, UnmarshalYAML).*)
(*                                                                         *)
(* time.Duration and Data.Samples are int64 and float64 carries a 53-bit   *)
(* significand.  TLC's integers are 32 bits wide, so the model keeps the   *)
(* two's-complement wrap-around and the floating-point rounding but at a   *)
(* reduced width: DurationBits for the integers, MantBits for the          *)
(* significand (MantBits < DurationBits - 1, as 53 < 63).                  *)
(***************************************************************************)
EXTENDS Integers, Sequences, FiniteSets, TLC

VARIABLES
    heap,   \* the Data instances: heap[i] is the Data at address i
    pc,     \* where the (single) calling goroutine is
    rcv,    \* receiver d of the exported method being executed
    cur,    \* receiver of the Update invocation about to run (Nil: none)
    arg,    \* argument of the call in progress
    timed,  \* TimeIt: how the timed fn ended and the delta taken after it
    ret,    \* what the last completed call handed back to its caller
    hist,   \* history: hist[i] is the samples Update was invoked with on i
    entry,  \* history: heap as it was when the last call was made
    calls   \* history: number of calls made so far

vars == <<heap, pc, rcv, cur, arg, timed, ret, hist, entry, calls>>

----------------------------------------------------------------------------
(* Bounds of the model *)

\* number of Data instances
NumData == 2
\* number of top-level Update/TimeIt calls in a behaviour
MaxCalls == 3
\* width of the model's signed integers (int64 in the source)
DurationBits == 15
\* width of the model's floating-point significand (53 in the source)
MantBits == 12

\* the nil *Data
Nil == 0
DataIds == 1..NumData

\* samples handed to Update by callers
UpdateSamples == {-25, 25, 50, 75}
\* wall-clock durations time.Since can report in TimeIt
ElapsedTimes == {0, 25, 50}

----------------------------------------------------------------------------
(* Machine arithmetic *)

RECURSIVE Pow2(_)
Pow2(n) == IF n = 0 THEN 1 ELSE 2 * Pow2(n - 1)

MaxDuration == Pow2(DurationBits - 1) - 1
MinDuration == -Pow2(DurationBits - 1)

Abs(x) == IF x < 0 THEN -x ELSE x

\* the value a signed two's-complement word holds after a result x
Wrap(x) == ((x - MinDuration) % Pow2(DurationBits)) + MinDuration

\* Go's +, -, * on int64 / time.Duration: silent wrap-around
Add(a, b) == Wrap(a + b)
Sub(a, b) == Wrap(a - b)
Mul(a, b) == Wrap(a * b)

\* a mutant of Quo: division that floors (rounds toward minus infinity)
QuoFloor(a, b) == IF b > 0 THEN a \div b ELSE (-a) \div (-b)

\* Go's / on integers, b # 0: the quotient truncated toward zero
Quo(a, b) ==
    LET q == Abs(a) \div Abs(b)
    IN  Wrap(IF (a < 0) = (b < 0) THEN q ELSE -q)

----------------------------------------------------------------------------
(* type Data struct *)

ZeroData == [Samples |-> 0, Mean |-> 0, Max |-> 0, Min |-> 0,
             Flags |-> 0, Next |-> Nil, m2 |-> 0]

\* the statistics of a Data: every field but Flags and Next
Stats(d) == <<d.Samples, d.Mean, d.Max, d.Min, d.m2>>

\* a mutant of MinAfter: the first sample does not seed Min
MinAfterNoSeed(d, sample) == IF sample < d.Min THEN sample ELSE d.Min

\* Update: if d.Samples == 0 || sample < d.Min { d.Min = sample }
MinAfter(d, sample) ==
    IF d.Samples = 0 \/ sample < d.Min THEN sample ELSE d.Min

\* Update: if d.Samples == 0 || sample > d.Max { d.Max = sample }
MaxAfter(d, sample) ==
    IF d.Samples = 0 \/ sample > d.Max THEN sample ELSE d.Max

\* a mutant of SamplesAfter: only a sample that differs from the mean counts
SamplesAfterIfMoved(d, sample) ==
    IF d.Samples > 0 /\ sample = d.Mean THEN d.Samples ELSE Add(d.Samples, 1)

\* Update: d.Samples++
SamplesAfter(d, sample) == Add(d.Samples, 1)

\* a mutant of Fold: delta1 is taken with the wrong sign
FoldAwayFromSample(d, sample) ==
    LET n == SamplesAfter(d, sample)
        delta1 == Sub(d.Mean, sample)
        mean == Add(d.Mean, Quo(delta1, n))
        delta2 == Sub(sample, mean)
    IN  [d EXCEPT !.Min = MinAfter(d, sample), !.Max = MaxAfter(d, sample),
                  !.Samples = n, !.Mean = mean,
                  !.m2 = Add(d.m2, Mul(delta1, delta2))]

\* The body of Update up to the call on Next (Samples # 0 after the increment)
Fold(d, sample) ==
    LET n == SamplesAfter(d, sample)
        delta1 == Sub(sample, d.Mean)
        mean == Add(d.Mean, Quo(delta1, n))
        delta2 == Sub(sample, mean)
    IN  [d EXCEPT !.Min = MinAfter(d, sample), !.Max = MaxAfter(d, sample),
                  !.Samples = n, !.Mean = mean,
                  !.m2 = Add(d.m2, Mul(delta1, delta2))]

----------------------------------------------------------------------------
(* Chains of Data *)

\* the Data reached from i by following Next k times (Nil past the end)
RECURSIVE Follow(_, _, _)
Follow(h, i, k) ==
    IF i = Nil \/ k = 0 THEN i ELSE Follow(h, h[i].Next, k - 1)

\* the chain starting at i does not come back to a Data it has visited
Acyclic(h, i) == Follow(h, i, NumData) = Nil

\* the chain starting at i, head first (of an acyclic chain)
RECURSIVE Chain(_, _)
Chain(h, i) == IF i = Nil THEN <<>> ELSE <<i>> \o Chain(h, h[i].Next)

SeqToSet(s) == {s[k] : k \in 1..Len(s)}

\* a mutant of Callee: the sample is not passed on
CalleeNone(h, i) == Nil

\* a mutant of Callee: a Data that is its own Next is not called again
CalleeUnlessSelf(h, i) == IF h[i].Next = i THEN Nil ELSE h[i].Next

\* Update: if d.Next != nil { d.Next.Update(sample) }: the next receiver
Callee(h, i) == h[i].Next

----------------------------------------------------------------------------
(* Calls *)

NotTimed == [ran |-> FALSE, panicked |-> FALSE, delta |-> 0]
NoRet == [op |-> "none", val |-> <<>>, err |-> "nil", panic |-> FALSE]

Idle == pc = "idle"

\* a caller invokes d.Update(sample)
CallUpdate(d, sample) ==
    /\ Idle
    /\ calls < MaxCalls
    /\ pc' = "Update"
    /\ rcv' = d
    /\ cur' = d
    /\ arg' = sample
    /\ timed' = NotTimed
    /\ ret' = NoRet
    /\ entry' = heap
    /\ calls' = calls + 1
    /\ UNCHANGED <<heap, hist>>

\* what the caller gets when the outermost Update returns: Update has no
\* result; TimeIt's result is delta, unless fn's panic resumes
Return ==
    IF timed.ran
    THEN [NoRet EXCEPT !.op = "TimeIt",
                       !.val = IF timed.panicked THEN <<>> ELSE <<timed.delta>>,
                       !.panic = timed.panicked]
    ELSE [NoRet EXCEPT !.op = "Update"]

\* Update: delta1 / time.Duration(d.Samples) panics (integer divide by zero)
\* when the increment has brought Samples to 0
FoldPanics(d, sample) == SamplesAfter(d, sample) = 0

\* the assignments Update has made when the division panics
FoldUntilPanic(d, sample) ==
    [d EXCEPT !.Min = MinAfter(d, sample), !.Max = MaxAfter(d, sample),
              !.Samples = SamplesAfter(d, sample)]

\* one invocation of Update, on cur: the fold, then the call on Next or,
\* with Next nil, the return through every pending invocation; a panic of
\* the fold unwinds every pending invocation
UpdateStep ==
    /\ pc = "Update"
    /\ cur # Nil
    /\ IF FoldPanics(heap[cur], arg)
       THEN /\ heap' = [heap EXCEPT ![cur] = FoldUntilPanic(heap[cur], arg)]
            /\ cur' = Nil
            /\ pc' = "idle"
            /\ ret' = [Return EXCEPT !.val = <<>>, !.panic = TRUE]
            /\ UNCHANGED hist
       ELSE /\ heap' = [heap EXCEPT ![cur] = Fold(heap[cur], arg)]
            /\ hist' = [hist EXCEPT ![cur] = Append(hist[cur], arg)]
            /\ cur' = Callee(heap, cur)
            /\ IF Callee(heap, cur) = Nil
               THEN pc' = "idle" /\ ret' = Return
               ELSE UNCHANGED <<pc, ret>>
    /\ UNCHANGED <<rcv, arg, timed, entry, calls>>

\* a caller invokes d.TimeIt(fn): curr is taken, the deferred function is
\* registered and fn starts running
CallTimeIt(d) ==
    /\ Idle
    /\ calls < MaxCalls
    /\ pc' = "TimeIt.fn"
    /\ rcv' = d
    /\ cur' = Nil
    /\ arg' = 0
    /\ timed' = NotTimed
    /\ ret' = NoRet
    /\ entry' = heap
    /\ calls' = calls + 1
    /\ UNCHANGED <<heap, hist>>

\* a mutant of FnEnds: Update is called after fn instead of being deferred,
\* so a panic of fn skips it
FnEndsNoDefer(panics, elapsed) ==
    /\ pc = "TimeIt.fn"
    /\ timed' = [ran |-> TRUE, panicked |-> panics, delta |-> elapsed]
    /\ IF panics
       THEN /\ pc' = "idle"
            /\ ret' = [NoRet EXCEPT !.op = "TimeIt", !.panic = TRUE]
            /\ UNCHANGED <<cur, arg>>
       ELSE /\ pc' = "Update"
            /\ cur' = rcv
            /\ arg' = elapsed
            /\ UNCHANGED ret
    /\ UNCHANGED <<heap, rcv, hist, entry, calls>>

\* fn ends, by returning or by panicking, elapsed after curr; the deferred
\* function sets delta = time.Since(curr) and calls d.Update(delta)
FnEnds(panics, elapsed) ==
    /\ pc = "TimeIt.fn"
    /\ timed' = [ran |-> TRUE, panicked |-> panics, delta |-> elapsed]
    /\ pc' = "Update"
    /\ cur' = rcv
    /\ arg' = elapsed
    /\ UNCHANGED <<heap, rcv, ret, hist, entry, calls>>

----------------------------------------------------------------------------
(* The accumulator: Update and TimeIt on fresh Data linked by Next *)

\* the ways of linking the Data into chains without a cycle; the Data are
\* numbered so that Next points to a higher address
Links == {next \in [DataIds -> {Nil} \cup DataIds] :
             \A i \in DataIds : next[i] = Nil \/ next[i] > i}

\* every Data is the zero value but for Next
Init ==
    /\ \E next \in Links :
          heap = [i \in DataIds |-> [ZeroData EXCEPT !.Next = next[i]]]
    /\ pc = "idle"
    /\ rcv = Nil
    /\ cur = Nil
    /\ arg = 0
    /\ timed = NotTimed
    /\ ret = NoRet
    /\ hist = [i \in DataIds |-> <<>>]
    /\ entry = heap
    /\ calls = 0

Next ==
    \/ \E d \in DataIds, sample \in UpdateSamples : CallUpdate(d, sample)
    \/ UpdateStep
    \/ \E d \in DataIds : CallTimeIt(d)
    \/ \E panics \in BOOLEAN, elapsed \in ElapsedTimes : FnEnds(panics, elapsed)

Spec == Init /\ [][Next]_vars

----------------------------------------------------------------------------
(* Variance, SampleVariance, StdDev, SampleStdDev *)

\* how the evaluation of an expression ends: with a value, or in a run-time
\* panic (integer divide by zero)
Value(v) == [panic |-> FALSE, val |-> v]
Panic == [panic |-> TRUE, val |-> 0]

\* a / b as the Go run time evaluates it
Divide(a, b) == IF b = 0 THEN Panic ELSE Value(Quo(a, b))

\* a mutant of Variance: the guard lets Samples = 0 through
VarianceNoGuard(d) ==
    IF d.Samples < 0 THEN Value(0) ELSE Divide(d.m2, d.Samples)

\* func (d *Data) Variance() time.Duration
Variance(d) ==
    IF d.Samples <= 0 THEN Value(0) ELSE Divide(d.m2, d.Samples)

\* func (d *Data) SampleVariance() time.Duration
SampleVariance(d) ==
    IF d.Samples <= 1 THEN Value(0) ELSE Divide(d.m2, Sub(d.Samples, 1))

\* the number of bits of n > 0
RECURSIVE BitLen(_)
BitLen(n) == IF n = 0 THEN 0 ELSE 1 + BitLen(n \div 2)

\* float64(v), v >= 0: v rounded to MantBits significant bits, to the
\* nearest and to even on a tie
ToFloat(v) ==
    IF BitLen(v) <= MantBits
    THEN v
    ELSE LET unit == Pow2(BitLen(v) - MantBits)
             q == v \div unit
             rem == v % unit
             up == 2 * rem > unit \/ (2 * rem = unit /\ q % 2 = 1)
         IN  (IF up THEN q + 1 ELSE q) * unit

\* the largest r with r * r <= n, found bit by bit from bit down
RECURSIVE RootBelow(_, _, _)
RootBelow(n, r, bit) ==
    IF bit = 0 THEN r
    ELSE IF (r + bit) * (r + bit) <= n
         THEN RootBelow(n, r + bit, bit \div 2)
         ELSE RootBelow(n, r, bit \div 2)

\* math.Sqrt(f), f >= 0 an integer-valued float: the square root rounded to
\* MantBits significant bits, as the numerator of a fraction over
\* Pow2(SqrtScale(f))
SqrtScale(f) == MantBits - BitLen(RootBelow(f, 0, Pow2(MantBits)))

Sqrt(f) ==
    LET n == f * Pow2(2 * SqrtScale(f))
        m == RootBelow(n, 0, Pow2(MantBits))
    IN  IF n > m * m + m THEN m + 1 ELSE m

\* a mutant of SqrtToDuration: the root is rounded to the nearest integer
SqrtToDurationRounded(v) ==
    (2 * Sqrt(ToFloat(v)) + Pow2(SqrtScale(ToFloat(v))))
        \div (2 * Pow2(SqrtScale(ToFloat(v))))

\* time.Duration(math.Sqrt(float64(v))), v >= 0: the conversion back
\* drops the fraction
SqrtToDuration(v) == Sqrt(ToFloat(v)) \div Pow2(SqrtScale(ToFloat(v)))

\* time.Duration(NaN): the conversion of a float the integer type cannot
\* represent succeeds with an implementation-dependent value (the most
\* negative integer on amd64, 0 on arm64)
NaNToDuration == {MinDuration, 0}

\* the results time.Duration(math.Sqrt(float64(v))) can have
SqrtResults(v) == IF v < 0 THEN NaNToDuration ELSE {SqrtToDuration(v)}

\* func (d *Data) StdDev() time.Duration: its possible outcomes
StdDev(d) ==
    IF Variance(d).panic THEN {Panic}
    ELSE {Value(r) : r \in SqrtResults(Variance(d).val)}

\* func (d *Data) SampleStdDev() time.Duration: its possible outcomes
SampleStdDev(d) ==
    IF SampleVariance(d).panic THEN {Panic}
    ELSE {Value(r) : r \in SqrtResults(SampleVariance(d).val)}

----------------------------------------------------------------------------
(* MarshalFlags, dataMarshaled, marshaler, toData *)

VarianceFlag == 1
SampleVarianceFlag == 2
StdDevFlag == 4
SampleStdDevFlag == 8

\* flags & bit != 0, bit a power of two
HasFlag(flags, bit) == (flags \div bit) % 2 = 1

\* flags | bit
WithFlag(flags, bit) == IF HasFlag(flags, bit) THEN flags ELSE flags + bit

\* a nil pointer field of dataMarshaled, and a pointer to v
Absent == <<>>
Ptr(v) == <<v>>

\* &dataMarshaled{}
ZeroMarshaled ==
    [Samples |-> Absent, Mean |-> Absent, Max |-> Absent, Min |-> Absent,
     Variance |-> Absent, SampleVariance |-> Absent, StdDev |-> Absent,
     SampleStdDev |-> Absent]

\* a mutant of Requested: a zero Flags requests nothing
RequestedIfSet(flags, bit) == HasFlag(flags, bit)

\* marshaler: d.Flags == 0 || (d.Flags&bit) != 0
Requested(flags, bit) == flags = 0 \/ HasFlag(flags, bit)

\* func (d *Data) marshaler() *dataMarshaled, given the results sd and ssd
\* of StdDev and SampleStdDev
marshaler(d, sd, ssd) ==
    [Samples |-> Ptr(d.Samples), Mean |-> Ptr(d.Mean),
     Max |-> Ptr(d.Max), Min |-> Ptr(d.Min),
     Variance |-> IF Requested(d.Flags, VarianceFlag)
                  THEN Ptr(Variance(d).val) ELSE Absent,
     SampleVariance |-> IF Requested(d.Flags, SampleVarianceFlag)
                        THEN Ptr(SampleVariance(d).val) ELSE Absent,
     StdDev |-> IF Requested(d.Flags, StdDevFlag)
                THEN Ptr(sd.val) ELSE Absent,
     SampleStdDev |-> IF Requested(d.Flags, SampleStdDevFlag)
                      THEN Ptr(ssd.val) ELSE Absent]

\* the field of d a pointer of dataMarshaled overwrites, if it is not nil
Taken(ptr, old) == IF ptr = Absent THEN old ELSE ptr[1]

\* a mutant of toData: the fields are handled from the easiest to recover
\* m2 from to the hardest, so that sample_std_dev wins
toDataReversed(dm, d) ==
    LET n == Taken(dm.Samples, d.Samples)
        f1 == IF dm.Variance = Absent THEN d.Flags
              ELSE WithFlag(d.Flags, VarianceFlag)
        q1 == IF dm.Variance = Absent THEN d.m2
              ELSE Mul(dm.Variance[1], n)
        f2 == IF dm.SampleVariance = Absent THEN f1
              ELSE WithFlag(f1, SampleVarianceFlag)
        q2 == IF dm.SampleVariance = Absent \/ ~(n > 1) THEN q1
              ELSE Mul(dm.SampleVariance[1], Sub(n, 1))
        f3 == IF dm.StdDev = Absent THEN f2 ELSE WithFlag(f2, StdDevFlag)
        q3 == IF dm.StdDev = Absent THEN q2
              ELSE Mul(Mul(dm.StdDev[1], dm.StdDev[1]), n)
        f4 == IF dm.SampleStdDev = Absent THEN f3
              ELSE WithFlag(f3, SampleStdDevFlag)
        q4 == IF dm.SampleStdDev = Absent \/ ~(n > 1) THEN q3
              ELSE Mul(Mul(dm.SampleStdDev[1], dm.SampleStdDev[1]), Sub(n, 1))
    IN  [d EXCEPT !.Samples = n,
                  !.Mean = Taken(dm.Mean, d.Mean),
                  !.Max = Taken(dm.Max, d.Max),
                  !.Min = Taken(dm.Min, d.Min),
                  !.Flags = f4, !.m2 = q4]

\* func (dm *dataMarshaled) toData(d *Data): fk and qk are d.Flags and d.m2
\* after the k-th of the four if statements on the calculated values
toData(dm, d) ==
    LET n == Taken(dm.Samples, d.Samples)
        f1 == IF dm.SampleStdDev = Absent THEN d.Flags
              ELSE WithFlag(d.Flags, SampleStdDevFlag)
        q1 == IF dm.SampleStdDev = Absent \/ ~(n > 1) THEN d.m2
              ELSE Mul(Mul(dm.SampleStdDev[1], dm.SampleStdDev[1]), Sub(n, 1))
        f2 == IF dm.StdDev = Absent THEN f1 ELSE WithFlag(f1, StdDevFlag)
        q2 == IF dm.StdDev = Absent THEN q1
              ELSE Mul(Mul(dm.StdDev[1], dm.StdDev[1]), n)
        f3 == IF dm.SampleVariance = Absent THEN f2
              ELSE WithFlag(f2, SampleVarianceFlag)
        q3 == IF dm.SampleVariance = Absent \/ ~(n > 1) THEN q2
              ELSE Mul(dm.SampleVariance[1], Sub(n, 1))
        f4 == IF dm.Variance = Absent THEN f3
              ELSE WithFlag(f3, VarianceFlag)
        q4 == IF dm.Variance = Absent THEN q3
              ELSE Mul(dm.Variance[1], n)
    IN  [d EXCEPT !.Samples = n,
                  !.Mean = Taken(dm.Mean, d.Mean),
                  !.Max = Taken(dm.Max, d.Max),
                  !.Min = Taken(dm.Min, d.Min),
                  !.Flags = f4, !.m2 = q4]

----------------------------------------------------------------------------
(* UnmarshalJSON, UnmarshalYAML *)

\* The input of an import is told by what the decoder (encoding/json,
\* yaml.v2) makes of it: the literal null, an object, whose keys decode into
\* the pointer fields dm, or a malformed text, on which the decoder fails
\* with dm filled as far as it got.
DecodeFails(text) == text.kind = "malformed"

\* a mutant of UnmarshalJSON: the decoder's error is returned only after
\* the conversion
UnmarshalJSONLateErr(text, d) ==
    IF text.kind = "null" THEN [data |-> d, err |-> "nil"]
    ELSE [data |-> toData(text.dm, d),
          err |-> IF DecodeFails(text) THEN "decode" ELSE "nil"]

\* a mutant of UnmarshalJSON: null resets the Data to its zero value
UnmarshalJSONNullResets(text, d) ==
    IF text.kind = "null"
    THEN [data |-> [ZeroData EXCEPT !.Next = d.Next], err |-> "nil"]
    ELSE IF DecodeFails(text) THEN [data |-> d, err |-> "decode"]
    ELSE [data |-> toData(text.dm, d), err |-> "nil"]

\* func (d *Data) UnmarshalJSON(text []byte) error
UnmarshalJSON(text, d) ==
    IF text.kind = "null" THEN [data |-> d, err |-> "nil"]
    ELSE IF DecodeFails(text) THEN [data |-> d, err |-> "decode"]
    ELSE [data |-> toData(text.dm, d), err |-> "nil"]

\* func (d *Data) UnmarshalYAML(unmarshal func(interface{}) error) error
UnmarshalYAML(text, d) ==
    IF DecodeFails(text) THEN [data |-> d, err |-> "decode"]
    ELSE [data |-> toData(text.dm, d), err |-> "nil"]

----------------------------------------------------------------------------
(* Calls of the statistics and of the adapter *)

\* what a caller gets from an expression that ended as outcome
Got(op, outcome) ==
    [NoRet EXCEPT !.op = op,
                  !.val = IF outcome.panic THEN <<>> ELSE <<outcome.val>>,
                  !.panic = outcome.panic]

\* a call that runs to its end in one step: d.op(input) hands back result
Completes(d, input, result) ==
    /\ Idle
    /\ calls < MaxCalls
    /\ rcv' = d
    /\ cur' = Nil
    /\ arg' = input
    /\ timed' = NotTimed
    /\ ret' = result
    /\ entry' = heap
    /\ calls' = calls + 1
    /\ UNCHANGED <<pc, hist>>

CallVariance(d) ==
    /\ Completes(d, 0, Got("Variance", Variance(heap[d])))
    /\ UNCHANGED heap

CallSampleVariance(d) ==
    /\ Completes(d, 0, Got("SampleVariance", SampleVariance(heap[d])))
    /\ UNCHANGED heap

CallStdDev(d) ==
    /\ \E outcome \in StdDev(heap[d]) :
          Completes(d, 0, Got("StdDev", outcome))
    /\ UNCHANGED heap

CallSampleStdDev(d) ==
    /\ \E outcome \in SampleStdDev(heap[d]) :
          Completes(d, 0, Got("SampleStdDev", outcome))
    /\ UNCHANGED heap

\* d.marshaler(), as MarshalJSON and MarshalYAML call it
CallMarshaler(d) ==
    /\ \E sd \in StdDev(heap[d]), ssd \in SampleStdDev(heap[d]) :
          Completes(d, 0,
              Got("marshaler",
                  IF \/ Variance(heap[d]).panic
                     \/ SampleVariance(heap[d]).panic
                  THEN Panic
                  ELSE Value(marshaler(heap[d], sd, ssd))))
    /\ UNCHANGED heap

CallUnmarshalJSON(d, text) ==
    /\ Completes(d, text,
          [NoRet EXCEPT !.op = "UnmarshalJSON",
                        !.err = UnmarshalJSON(text, heap[d]).err])
    /\ heap' = [heap EXCEPT ![d] = UnmarshalJSON(text, heap[d]).data]

CallUnmarshalYAML(d, text) ==
    /\ Completes(d, text,
          [NoRet EXCEPT !.op = "UnmarshalYAML",
                        !.err = UnmarshalYAML(text, heap[d]).err])
    /\ heap' = [heap EXCEPT ![d] = UnmarshalYAML(text, heap[d]).data]

----------------------------------------------------------------------------
(* The statistics and the adapter: one call on a Data in any state *)

\* the fields of the Data the call is made on or, for the others, the zero
\* value: Samples, m2 and Flags over the cases of the guards, of the
\* rounding and of the flag tests
AnySamples == {-1, 0, 1, 2, 3}
AnyM2 == {-50, 0, 50, 64, 1250, 4095, 8280, 16383}
AnyFlags == 0..16

\* the records a decoder can hand to toData: each key present or not
Records ==
    {[Samples |-> n, Mean |-> b[1], Max |-> b[2], Min |-> b[3],
      Variance |-> v, SampleVariance |-> sv, StdDev |-> sd,
      SampleStdDev |-> ssd] :
        n \in {Absent, Ptr(1), Ptr(3)},
        b \in {<<Absent, Absent, Absent>>, <<Ptr(40), Ptr(90), Ptr(10)>>},
        v \in {Absent, Ptr(416)}, sv \in {Absent, Ptr(610)},
        sd \in {Absent, Ptr(20)}, ssd \in {Absent, Ptr(25)}}

\* what a decoder had filled when it failed
PartialRecords ==
    {ZeroMarshaled,
     [ZeroMarshaled EXCEPT !.Samples = Ptr(3), !.Mean = Ptr(40),
                           !.StdDev = Ptr(20), !.Variance = Ptr(416)]}

YAMLTexts ==
    {[kind |-> "object", dm |-> r] : r \in Records}
        \cup {[kind |-> "malformed", dm |-> r] : r \in PartialRecords}

JSONTexts == YAMLTexts \cup {[kind |-> "null", dm |-> ZeroMarshaled]}

InitCodec ==
    /\ \E n \in AnySamples, q \in AnyM2, f \in AnyFlags :
          heap = [i \in DataIds |->
                     IF i = 1
                     THEN [Samples |-> n, Mean |-> 50, Max |-> 75,
                           Min |-> 25, Flags |-> f,
                           Next |-> IF NumData > 1 THEN 2 ELSE Nil,
                           m2 |-> q]
                     ELSE ZeroData]
    /\ pc = "idle"
    /\ rcv = Nil
    /\ cur = Nil
    /\ arg = 0
    /\ timed = NotTimed
    /\ ret = NoRet
    /\ hist = [i \in DataIds |-> <<>>]
    /\ entry = heap
    /\ calls = 0

\* no call has been made yet
FirstCall == calls = 0

NextCodec ==
    \/ \E d \in DataIds : FirstCall /\ CallVariance(d)
    \/ \E d \in DataIds : FirstCall /\ CallSampleVariance(d)
    \/ \E d \in DataIds : FirstCall /\ CallStdDev(d)
    \/ \E d \in DataIds : FirstCall /\ CallSampleStdDev(d)
    \/ \E d \in DataIds : FirstCall /\ CallMarshaler(d)
    \/ \E d \in DataIds, text \in JSONTexts :
          FirstCall /\ CallUnmarshalJSON(d, text)
    \/ \E d \in DataIds, text \in YAMLTexts :
          FirstCall /\ CallUnmarshalYAML(d, text)

SpecCodec == InitCodec /\ [][NextCodec]_vars

----------------------------------------------------------------------------
(* MarshalJSON, and the round trip of a Data through JSON *)

\* the fields of dataMarshaled, in the order of the struct
Fields ==
    <<"Samples", "Mean", "Max", "Min", "Variance", "SampleVariance",
      "StdDev", "SampleStdDev">>

FieldSet == {Fields[k] : k \in 1..Len(Fields)}

\* the json tag of each field: the key of its member
JSONKey ==
    [Samples |-> "samples", Mean |-> "mean", Max |-> "max", Min |-> "min",
     Variance |-> "variance", SampleVariance |-> "sample_variance",
     StdDev |-> "std_dev", SampleStdDev |-> "sample_std_dev"]

\* the fields tagged omitempty
OmitEmpty == {"Variance", "SampleVariance", "StdDev", "SampleStdDev"}

\* A JSON object is the sequence of its members <<key, value>>; a value is
\* <<>> for null and <<v>> for the number v.

\* a mutant of Omitted: omitempty as it acts on a field that is a number
\* and not a pointer, leaving out a zero too
OmittedIfZero(dm, f) == f \in OmitEmpty /\ (dm[f] = Absent \/ dm[f] = Ptr(0))

\* json.Marshal leaves the member of f out: omitempty and a nil pointer
Omitted(dm, f) == f \in OmitEmpty /\ dm[f] = Absent

\* json.Marshal(dm): the members of the fields from the k-th on
RECURSIVE MembersFrom(_, _)
MembersFrom(dm, k) ==
    IF k > Len(Fields) THEN <<>>
    ELSE (IF Omitted(dm, Fields[k]) THEN <<>>
          ELSE << <<JSONKey[Fields[k]], dm[Fields[k]]>> >>)
         \o MembersFrom(dm, k + 1)

jsonMarshal(dm) == MembersFrom(dm, 1)

\* json.Unmarshal(obj, &dataMarshaled{}): a field stays nil unless a member
\* has its key and a number; of members with the same key the last counts
jsonUnmarshal(obj) ==
    [f \in FieldSet |->
        LET at == {k \in 1..Len(obj) : obj[k][1] = JSONKey[f]}
        IN  IF at = {} THEN Absent
            ELSE obj[CHOOSE k \in at : \A j \in at : j <= k][2]]

\* what UnmarshalJSON is given when text is the object obj
ObjectText(obj) == [kind |-> "object", dm |-> jsonUnmarshal(obj)]

\* func (d *Data) MarshalJSON() ([]byte, error)
CallMarshalJSON(d) ==
    /\ \E sd \in StdDev(heap[d]), ssd \in SampleStdDev(heap[d]) :
          Completes(d, 0,
              Got("MarshalJSON",
                  IF \/ Variance(heap[d]).panic
                     \/ SampleVariance(heap[d]).panic
                  THEN Panic
                  ELSE Value(jsonMarshal(marshaler(heap[d], sd, ssd)))))
    /\ UNCHANGED heap

\* a Data is exported
Export == \E d \in DataIds : FirstCall /\ CallMarshalJSON(d)

\* the text the export returned is imported into a Data
Reimport ==
    \E d \in DataIds :
        /\ ret.op = "MarshalJSON"
        /\ ~ret.panic
        /\ CallUnmarshalJSON(d, ObjectText(ret.val[1]))

NextRoundTrip ==
    \/ Export
    \/ Reimport

SpecRoundTrip == InitCodec /\ [][NextRoundTrip]_vars

----------------------------------------------------------------------------
(* Every operation, in any order, on Data that start fresh *)

\* the inputs of the calls: two samples, two elapsed times and the texts
\* that leave a Data alone, fill it, and set Samples to the values next to
\* which the increment of Update ends at 0 or wraps around
MixedSamples == {25, 75}
MixedElapsed == {0, 50}

MixedRecords ==
    {ZeroMarshaled,
     [ZeroMarshaled EXCEPT !.Samples = Ptr(2), !.Mean = Ptr(40),
                           !.Max = Ptr(90), !.Min = Ptr(10),
                           !.Variance = Ptr(416)],
     [ZeroMarshaled EXCEPT !.Samples = Ptr(-1)],
     [ZeroMarshaled EXCEPT !.Samples = Ptr(MaxDuration)]}

MixedYAMLTexts ==
    {[kind |-> "object", dm |-> r] : r \in MixedRecords}
        \cup {[kind |-> "malformed", dm |-> ZeroMarshaled]}

MixedJSONTexts == MixedYAMLTexts \cup {[kind |-> "null", dm |-> ZeroMarshaled]}

\* the number of calls made in a run
MaxMixedCalls == 2

MoreCalls == calls < MaxMixedCalls

\* every Data is the zero value but for Next, which links them in one chain
InitMixed ==
    /\ heap = [i \in DataIds |->
                  [ZeroData EXCEPT !.Next = IF i < NumData THEN i + 1 ELSE Nil]]
    /\ pc = "idle"
    /\ rcv = Nil
    /\ cur = Nil
    /\ arg = 0
    /\ timed = NotTimed
    /\ ret = NoRet
    /\ hist = [i \in DataIds |-> <<>>]
    /\ entry = heap
    /\ calls = 0

NextMixed ==
    \/ \E d \in DataIds, sample \in MixedSamples :
          MoreCalls /\ CallUpdate(d, sample)
    \/ UpdateStep
    \/ \E d \in DataIds : MoreCalls /\ CallTimeIt(d)
    \/ \E panics \in BOOLEAN, elapsed \in MixedElapsed : FnEnds(panics, elapsed)
    \/ \E d \in DataIds : MoreCalls /\ CallVariance(d)
    \/ \E d \in DataIds : MoreCalls /\ CallSampleVariance(d)
    \/ \E d \in DataIds : MoreCalls /\ CallStdDev(d)
    \/ \E d \in DataIds : MoreCalls /\ CallSampleStdDev(d)
    \/ \E d \in DataIds : MoreCalls /\ CallMarshalJSON(d)
    \/ \E d \in DataIds, text \in MixedJSONTexts :
          MoreCalls /\ CallUnmarshalJSON(d, text)
    \/ \E d \in DataIds, text \in MixedYAMLTexts :
          MoreCalls /\ CallUnmarshalYAML(d, text)

SpecMixed == InitMixed /\ [][NextMixed]_vars

----------------------------------------------------------------------------
(* Update with samples over the whole range of time.Duration *)

\* samples at the ends of the range, and samples whose squared distance
\* does not fit the range although they are far from its ends
WideSamples == {MinDuration, -200, 0, 200, MaxDuration}

NextWide ==
    \/ \E d \in DataIds, sample \in WideSamples : CallUpdate(d, sample)
    \/ UpdateStep

SpecWide == Init /\ [][NextWide]_vars

----------------------------------------------------------------------------
(* Update on Data linked in any way, cycles included *)

\* every way of setting the Next fields
AnyLinks == [DataIds -> {Nil} \cup DataIds]

InitLinked ==
    /\ \E next \in AnyLinks :
          heap = [i \in DataIds |-> [ZeroData EXCEPT !.Next = next[i]]]
    /\ pc = "idle"
    /\ rcv = Nil
    /\ cur = Nil
    /\ arg = 0
    /\ timed = NotTimed
    /\ ret = NoRet
    /\ hist = [i \in DataIds |-> <<>>]
    /\ entry = heap
    /\ calls = 0

\* the frames the goroutine's stack has room for
MaxStack == 5

\* the invocations of Update that have not returned: every one made since
\* the first call, as none returns before the last one has folded
RECURSIVE FoldsUpTo(_)
FoldsUpTo(n) == IF n = 0 THEN 0 ELSE Len(hist[n]) + FoldsUpTo(n - 1)

Pending == FoldsUpTo(NumData)

\* the invocation on cur runs, its frame fitting the stack
UpdateOnStack == Pending < MaxStack /\ UpdateStep

\* the stack cannot grow by the frame of the invocation on cur: the run
\* time ends the program (fatal error: stack overflow), no call returning
StackOverflow ==
    /\ pc = "Update"
    /\ cur # Nil
    /\ Pending >= MaxStack
    /\ pc' = "fatal"
    /\ UNCHANGED <<heap, rcv, cur, arg, timed, ret, hist, entry, calls>>

NextLinked ==
    \/ \E d \in DataIds, sample \in UpdateSamples :
          FirstCall /\ CallUpdate(d, sample)
    \/ UpdateOnStack
    \/ StackOverflow

\* a call that has started goes on running
SpecLinked ==
    /\ InitLinked
    /\ [][NextLinked]_vars
    /\ WF_vars(UpdateOnStack)
    /\ WF_vars(StackOverflow)

----------------------------------------------------------------------------
(* Properties of Update and TimeIt, under Spec *)

\* q is a / n (n > 0) rounded toward zero, told by what that is, not by how
\* it is computed: q has a's sign and the largest magnitude with
\* |q| * n <= |a|
IsTruncQuotient(q, a, n) ==
    /\ Abs(q) * n <= Abs(a)
    /\ Abs(a) < (Abs(q) + 1) * n
    /\ (a >= 0 => q >= 0)
    /\ (a <= 0 => q <= 0)

\* C1: an invocation of Update with sample on a Data in state (Samples = n,
\* Mean = m, m2 = q) leaves Samples = n + 1,
\* Mean' = m + trunc((sample - m) / (n + 1)), rounded toward zero, and
\* m2 = q + (sample - m) * (sample - Mean'); 50 then 25 gives Mean 38 and
\* m2 325, 50 then 75 gives Mean 62 and m2 325.
C1_UpdateRecurrence ==
    [][\A i \in DataIds :
          /\ hist'[i] # hist[i] =>
                LET sample == hist'[i][Len(hist'[i])]
                    pre == heap[i]
                    post == heap'[i]
                IN  /\ post.Samples = pre.Samples + 1
                    /\ IsTruncQuotient(post.Mean - pre.Mean,
                                       sample - pre.Mean, pre.Samples + 1)
                    /\ post.m2 =
                          pre.m2 + (sample - pre.Mean) * (sample - post.Mean)
          /\ hist'[i] = <<50, 25>> => heap'[i].Mean = 38 /\ heap'[i].m2 = 325
          /\ hist'[i] = <<50, 75>> => heap'[i].Mean = 62 /\ heap'[i].m2 = 325
      ]_vars

\* a Data that took 50 then 25, where rounding toward zero and flooring part
C1_Witness ==
    \E i \in DataIds :
        hist[i] = <<50, 25>> /\ heap[i].Mean = 38 /\ heap[i].m2 = 325

\* C2: Samples of a Data that started fresh is the number of Update
\* invocations made on it so far, none included.
C2_SamplesCountsUpdates ==
    \A i \in DataIds : heap[i].Samples = Len(hist[i])

\* a Data updated three times, one of the samples being equal to its mean
C2_Witness ==
    \E i \in DataIds :
        /\ Len(hist[i]) = 3
        /\ hist[i][2] = hist[i][1]
        /\ heap[i].Samples = 3

\* C3: once a Data has been updated, Min is the smallest and Max the largest
\* of the samples it was updated with.
C3_MinMaxOfSamples ==
    \A i \in DataIds :
        hist[i] # <<>> =>
            /\ heap[i].Min \in SeqToSet(hist[i])
            /\ heap[i].Max \in SeqToSet(hist[i])
            /\ \A s \in SeqToSet(hist[i]) : heap[i].Min <= s /\ s <= heap[i].Max

\* one Data whose first sample is negative (Max below the zero value) and
\* one whose samples are all positive (Min above it)
C3_Witness ==
    \E i, j \in DataIds :
        /\ hist[i] # <<>> /\ heap[i].Max < 0
        /\ Len(hist[j]) >= 2 /\ heap[j].Min > 0 /\ heap[j].Min < heap[j].Max

\* the Data of the chain of the last call that come before cur
Visited ==
    LET ch == Chain(entry, rcv)
    IN  {ch[k] : k \in {k \in 1..Len(ch) :
                           cur = Nil \/ \A l \in 1..k : ch[l] # cur}}

\* C4: a call of Update on the head of an acyclic chain invokes the fold on
\* the Data of the chain from the head on, one after the other: while it
\* runs, the Data up to the current one have taken the sample once and the
\* others are untouched, and when it has returned every Data of the chain
\* has taken the sample exactly once; Data of the chain whose statistics
\* were equal before the call have equal statistics after it.
C4_ChainedUpdate ==
    (pc = "Update" \/ (Idle /\ ret.op = "Update")) /\ Acyclic(entry, rcv) =>
        /\ Idle => Visited = SeqToSet(Chain(entry, rcv))
        /\ \A i \in DataIds \ Visited : heap[i] = entry[i]
        /\ \A i \in Visited :
              /\ heap[i].Samples = entry[i].Samples + 1
              /\ hist[i] # <<>> /\ hist[i][Len(hist[i])] = arg
              /\ heap[i].Next = entry[i].Next
        /\ \A i, j \in Visited :
              Stats(entry[i]) = Stats(entry[j]) => Stats(heap[i]) = Stats(heap[j])

\* Update has returned from a chain of two Data that had equal statistics,
\* one sample each, before the call
C4_Witness ==
    /\ Idle /\ ret.op = "Update"
    /\ Len(Chain(entry, rcv)) >= 2
    /\ \A i, j \in SeqToSet(Chain(entry, rcv)) :
          /\ entry[i].Samples = 1 /\ Stats(entry[i]) = Stats(entry[j])
          /\ heap[i].Samples = 2 /\ heap[i].m2 > 0

\* C5: TimeIt folds nothing while fn runs; when it is over, after fn
\* returned or panicked, the receiver has been updated exactly once, with
\* the delta taken after fn; a return hands that delta to the caller and a
\* panic of fn reaches the caller.
C5_TimeItFoldsOnce ==
    /\ pc = "TimeIt.fn" => heap = entry /\ ~timed.ran
    /\ Idle /\ ret.op = "TimeIt" =>
          /\ timed.ran
          /\ heap[rcv].Samples = entry[rcv].Samples + 1
          /\ hist[rcv][Len(hist[rcv])] = timed.delta
          /\ ret.panic = timed.panicked
          /\ ~timed.panicked => ret.val = <<timed.delta>>
          /\ timed.panicked => ret.val = <<>>

\* TimeIt is over after a panic of fn, on a Data that had samples already
C5_Witness ==
    /\ Idle /\ ret.op = "TimeIt" /\ ret.panic
    /\ entry[rcv].Samples = 2
    /\ heap[rcv].Samples = 3
    /\ timed.delta = 50

----------------------------------------------------------------------------
(* Properties of the statistics and of the adapter, under SpecCodec *)

\* C6: on every state (Samples = n, m2 = q), Variance returns q / n by
\* integer division when n >= 1 and 0 when n = 0, SampleVariance returns
\* q / (n - 1) by integer division when n >= 2 and 0 when n <= 1, and
\* neither panics (no division by zero).
C6_VarianceByDivision ==
    LET n == heap[rcv].Samples
        q == heap[rcv].m2
    IN  /\ ret.op = "Variance" =>
              /\ ~ret.panic
              /\ n >= 1 => IsTruncQuotient(ret.val[1], q, n)
              /\ n = 0 => ret.val = <<0>>
        /\ ret.op = "SampleVariance" =>
              /\ ~ret.panic
              /\ n >= 2 => IsTruncQuotient(ret.val[1], q, n - 1)
              /\ n <= 1 => ret.val = <<0>>

\* Variance has returned 0 on a Data with no samples and m2 = 50
C6_Witness ==
    /\ ret.op = "Variance"
    /\ heap[rcv].Samples = 0 /\ heap[rcv].m2 = 50
    /\ ret.val = <<0>>

\* r is the integer square root of v
IsIntegerRoot(r, v) == r >= 0 /\ r * r <= v /\ v < (r + 1) * (r + 1)

\* the variances whose square root float64 arithmetic yields exactly: those
\* below 2^(2 * (p \div 2)), p the bits of the significand (2^52 for float64)
ExactRootLimit == Pow2(2 * (MantBits \div 2))

\* C7 as claimed: StdDev returns the integer square root of Variance and
\* SampleStdDev that of SampleVariance, for every non-negative variance.
C7_IntegerRoot ==
    /\ ret.op = "StdDev" /\ Variance(heap[rcv]).val >= 0 =>
          /\ ~ret.panic
          /\ IsIntegerRoot(ret.val[1], Variance(heap[rcv]).val)
    /\ ret.op = "SampleStdDev" /\ SampleVariance(heap[rcv]).val >= 0 =>
          /\ ~ret.panic
          /\ IsIntegerRoot(ret.val[1], SampleVariance(heap[rcv]).val)

\* C7, amended: StdDev returns the integer square root of Variance and
\* SampleStdDev that of SampleVariance, for every non-negative variance
\* below the limit up to which the floating-point square root is exact;
\* StdDev is 0 when Samples = 0 and SampleStdDev is 0 when Samples <= 1.
C7_IntegerRootBelowLimit ==
    /\ ret.op = "StdDev" =>
          LET v == Variance(heap[rcv]).val
          IN  /\ 0 <= v /\ v < ExactRootLimit =>
                    ~ret.panic /\ IsIntegerRoot(ret.val[1], v)
              /\ heap[rcv].Samples = 0 => ret.val = <<0>>
    /\ ret.op = "SampleStdDev" =>
          LET v == SampleVariance(heap[rcv]).val
          IN  /\ 0 <= v /\ v < ExactRootLimit =>
                    ~ret.panic /\ IsIntegerRoot(ret.val[1], v)
              /\ heap[rcv].Samples <= 1 => ret.val = <<0>>

\* StdDev has returned 8 on a Data with one sample and m2 = 64
C7_Witness ==
    /\ ret.op = "StdDev"
    /\ heap[rcv].Samples = 1 /\ heap[rcv].m2 = 64
    /\ ret.val = <<8>>

\* C8: the record marshaler builds always holds samples, mean, max and min;
\* it holds variance, sample_variance, std_dev, sample_std_dev exactly when
\* Flags is 0 or has the field's bit, each with the value of the statistics
\* operation on the Data; the Data is not changed.
C8_MarshalerFields ==
    ret.op = "marshaler" =>
        LET d == heap[rcv]
            rec == ret.val[1]
            bit(k) == (d.Flags \div Pow2(k)) % 2 = 1
        IN  /\ ~ret.panic
            /\ heap = entry
            /\ rec.Samples = <<d.Samples>> /\ rec.Mean = <<d.Mean>>
            /\ rec.Max = <<d.Max>> /\ rec.Min = <<d.Min>>
            /\ rec.Variance # <<>> <=> (d.Flags = 0 \/ bit(0))
            /\ rec.SampleVariance # <<>> <=> (d.Flags = 0 \/ bit(1))
            /\ rec.StdDev # <<>> <=> (d.Flags = 0 \/ bit(2))
            /\ rec.SampleStdDev # <<>> <=> (d.Flags = 0 \/ bit(3))
            /\ rec.Variance # <<>> => rec.Variance[1] = Variance(d).val
            /\ rec.SampleVariance # <<>> =>
                  rec.SampleVariance[1] = SampleVariance(d).val
            /\ rec.StdDev # <<>> => Value(rec.StdDev[1]) \in StdDev(d)
            /\ rec.SampleStdDev # <<>> =>
                  Value(rec.SampleStdDev[1]) \in SampleStdDev(d)

\* marshaler has run on Samples = 3, m2 = 1250 with Flags = Variance|StdDev
C8_Witness ==
    /\ ret.op = "marshaler"
    /\ heap[rcv].Samples = 3 /\ heap[rcv].m2 = 1250 /\ heap[rcv].Flags = 5
    /\ ret.val[1].Variance = <<416>> /\ ret.val[1].StdDev = <<20>>
    /\ ret.val[1].SampleVariance = <<>> /\ ret.val[1].SampleStdDev = <<>>

\* an import has decoded its input and converted the record
Imported ==
    /\ ret.op \in {"UnmarshalJSON", "UnmarshalYAML"}
    /\ arg.kind = "object"

\* the reconstructions of m2 that apply to record dm with sample count n,
\* in the order sample_std_dev, std_dev, sample_variance, variance
Reconstructions(dm, n) ==
    (IF dm.SampleStdDev # <<>> /\ n > 1
     THEN <<dm.SampleStdDev[1] * dm.SampleStdDev[1] * (n - 1)>> ELSE <<>>)
    \o (IF dm.StdDev # <<>>
        THEN <<dm.StdDev[1] * dm.StdDev[1] * n>> ELSE <<>>)
    \o (IF dm.SampleVariance # <<>> /\ n > 1
        THEN <<dm.SampleVariance[1] * (n - 1)>> ELSE <<>>)
    \o (IF dm.Variance # <<>> THEN <<dm.Variance[1] * n>> ELSE <<>>)

\* C9: an import of a record with any subset of the derived fields sets m2
\* to the reconstruction of the last field that applies, in the order
\* sample_std_dev (n > 1 only), std_dev, sample_variance (n > 1 only),
\* variance, n being the sample count after the import, and leaves m2 alone
\* if none applies; the import sets the flag bit of every derived field
\* that is present, applied or not, and changes no bit of an absent one.
C9_ImportReconstructsM2 ==
    Imported =>
        LET dm == arg.dm
            pre == entry[rcv]
            post == heap[rcv]
            rs == Reconstructions(dm, post.Samples)
            bit(f, k) == (f \div Pow2(k)) % 2 = 1
            set(ptr, k) ==
                IF ptr # <<>> THEN bit(post.Flags, k)
                ELSE bit(post.Flags, k) = bit(pre.Flags, k)
        IN  /\ dm.Samples # <<>> => post.Samples = dm.Samples[1]
            /\ dm.Samples = <<>> => post.Samples = pre.Samples
            /\ post.m2 = IF rs = <<>> THEN pre.m2 ELSE rs[Len(rs)]
            /\ set(dm.Variance, 0) /\ set(dm.SampleVariance, 1)
            /\ set(dm.StdDev, 2) /\ set(dm.SampleStdDev, 3)
            /\ post.Flags \div 16 = pre.Flags \div 16

\* the record of three samples with all four derived fields has been
\* imported into a fresh Data
C9_Witness ==
    /\ Imported
    /\ entry[rcv] = ZeroData
    /\ arg.dm.Samples = <<3>>
    /\ arg.dm.Variance # <<>> /\ arg.dm.SampleVariance # <<>>
    /\ arg.dm.StdDev # <<>> /\ arg.dm.SampleStdDev # <<>>
    /\ heap[rcv].m2 = 1248 /\ heap[rcv].Flags = 15

\* C10: an import that yields no decoded record leaves every field of every
\* Data as it was: on a decoding failure, of JSON or of YAML, it returns
\* the decoding error, and on the JSON literal null it returns no error.
C10_FailedImportChangesNothing ==
    ret.op \in {"UnmarshalJSON", "UnmarshalYAML"} /\ arg.kind # "object" =>
        /\ heap = entry
        /\ arg.kind = "malformed" => ret.err = "decode"
        /\ arg.kind = "null" => ret.err = "nil"

\* UnmarshalJSON has failed on a text of which the decoder had decoded some
\* keys, the target being a Data with samples
C10_Witness ==
    /\ ret.op = "UnmarshalJSON" /\ ret.err = "decode"
    /\ arg.dm.Samples = <<3>> /\ arg.dm.Variance # <<>>
    /\ heap[rcv].Samples = 2 /\ heap[rcv].m2 = 1250

----------------------------------------------------------------------------
(* Properties of the round trip, under SpecRoundTrip *)

\* a Data as constructed: the zero value, but for Next
Fresh(d) == Stats(d) = Stats(ZeroData) /\ d.Flags = 0

AllFlags ==
    WithFlag(WithFlag(WithFlag(WithFlag(0, VarianceFlag), SampleVarianceFlag),
                      StdDevFlag), SampleStdDevFlag)

\* C11: importing the export of a Data whose Flags are 0 into a fresh Data
\* reproduces Samples, Mean, Max and Min exactly, sets all four flag bits
\* and makes m2 the exported variance times Samples (rcv is the Data
\* exported before the step and the Data imported into after it)
C11_RoundTrip ==
    [][(/\ ret.op = "MarshalJSON"
        /\ ret'.op = "UnmarshalJSON"
        /\ heap[rcv].Flags = 0
        /\ Fresh(heap[rcv']))
       => LET src == heap[rcv]
              dst == heap'[rcv']
          IN  /\ ret'.err = "nil"
              /\ dst.Samples = src.Samples
              /\ dst.Mean = src.Mean
              /\ dst.Max = src.Max
              /\ dst.Min = src.Min
              /\ dst.Flags = AllFlags
              /\ dst.Next = heap[rcv'].Next
              /\ ~Variance(src).panic
              /\ dst.m2 = Mul(Variance(src).val, src.Samples)]_vars

\* a Data with 3 samples and m2 = 1250 has come back with m2 = 1248
C11_Witness ==
    /\ ret.op = "UnmarshalJSON"
    /\ Fresh(entry[rcv])
    /\ \E i \in DataIds :
          /\ i # rcv
          /\ heap[i].Flags = 0
          /\ heap[i].Samples = 3
          /\ heap[i].m2 = 1250
          /\ heap[rcv].Samples = 3
          /\ heap[rcv].Mean = heap[i].Mean
          /\ heap[rcv].m2 = 1248
          /\ heap[rcv].Flags = AllFlags

----------------------------------------------------------------------------
(* Properties of the operations in any order, under SpecMixed *)

\* the step is an invocation of Update folding the sample into Data i
FoldOf(i) == pc = "Update" /\ cur = i

\* the step is a call of UnmarshalJSON or UnmarshalYAML on Data i that
\* decodes an object
ImportOf(i) ==
    /\ Idle
    /\ ret'.op \in {"UnmarshalJSON", "UnmarshalYAML"}
    /\ rcv' = i
    /\ ret'.err = "nil"
    /\ arg'.kind = "object"

\* C12 as claimed: in every step of every operation, import included,
\* Samples does not decrease, changes only by an increase of 1, and the
\* statistics change only in a fold
C12_OnlyFoldsMutate ==
    [][\A i \in DataIds :
          /\ heap'[i].Samples >= heap[i].Samples
          /\ heap'[i].Samples # heap[i].Samples
                => FoldOf(i) /\ heap'[i].Samples = heap[i].Samples + 1
          /\ Stats(heap'[i]) # Stats(heap[i]) => FoldOf(i)]_vars

\* C12, amended: the statistics of a Data change only in a fold into it or
\* in an import of an object into it; a fold adds exactly 1 to Samples, in
\* 64-bit arithmetic, also when it panics; an import sets Samples, Mean,
\* Max and Min to the fields the object has, whatever they were
C12_OnlyFoldsAndImportsMutate ==
    [][\A i \in DataIds :
          /\ Stats(heap'[i]) # Stats(heap[i]) => FoldOf(i) \/ ImportOf(i)
          /\ FoldOf(i)
                => heap'[i].Samples =
                      IF heap[i].Samples = MaxDuration THEN MinDuration
                      ELSE heap[i].Samples + 1
          /\ ImportOf(i)
                => /\ heap'[i].Samples = Taken(arg'.dm.Samples, heap[i].Samples)
                   /\ heap'[i].Mean = Taken(arg'.dm.Mean, heap[i].Mean)
                   /\ heap'[i].Max = Taken(arg'.dm.Max, heap[i].Max)
                   /\ heap'[i].Min = Taken(arg'.dm.Min, heap[i].Min)]_vars

\* an import has lowered the Samples that folds had counted
C12_Witness ==
    /\ ret.op \in {"UnmarshalJSON", "UnmarshalYAML"}
    /\ hist[rcv] # <<>>
    /\ entry[rcv].Samples = Len(hist[rcv])
    /\ heap[rcv].Samples < entry[rcv].Samples

----------------------------------------------------------------------------
(* Properties of Update over the whole range, under SpecWide *)

\* C13: whatever samples Update has folded into fresh Data, m2 is not
\* negative and no fold lowers it, and Variance and SampleVariance are not
\* negative
C13_M2NeverNegative ==
    [][\A i \in DataIds :
          /\ heap'[i].m2 >= heap[i].m2
          /\ heap'[i].m2 >= 0
          /\ Variance(heap'[i]).val >= 0
          /\ SampleVariance(heap'[i]).val >= 0]_vars

----------------------------------------------------------------------------
(* Properties of Update on any links, under SpecLinked *)

\* Update has returned to its caller
Returned == pc = "idle" /\ ret.op = "Update"

\* C14: a call of Update on a chain without a cycle returns, and when it
\* does it has folded once into each Data of the chain and into no other;
\* a call on a chain with a cycle never returns
C14_ReturnsIffAcyclic ==
    /\ (pc = "Update" /\ Acyclic(heap, rcv)) ~> Returned
    /\ [](Returned
            => /\ Acyclic(heap, rcv)
               /\ Pending = Len(Chain(heap, rcv))
               /\ \A i \in DataIds :
                     Len(hist[i]) =
                        IF i \in SeqToSet(Chain(heap, rcv)) THEN 1 ELSE 0)
    /\ [][(pc = "Update" /\ ~Acyclic(heap, rcv)) => pc' # "idle"]_vars

\* a call is folding into its receiver for the second time
C14_Witness ==
    /\ pc = "Update"
    /\ ~Acyclic(heap, rcv)
    /\ cur = rcv
    /\ Len(hist[rcv]) = 1
    /\ Pending = Len(hist[rcv]) + (IF heap[rcv].Next = rcv THEN 0 ELSE 1)

----------------------------------------------------------------------------
(* The mean between the extremes, under Spec *)

\* x lies between a and b, whichever is the larger, inclusive
Between(x, a, b) == (a <= x /\ x <= b) \/ (b <= x /\ x <= a)

\* C15: a Data that has a sample has Min <= Mean <= Max, and the Mean a
\* fold leaves lies between the Mean it found and the sample
C15_MeanBetweenMinAndMax ==
    [][\A i \in DataIds :
          /\ heap'[i].Samples >= 1
                => /\ heap'[i].Min <= heap'[i].Mean
                   /\ heap'[i].Mean <= heap'[i].Max
          /\ (pc = "Update" /\ cur = i)
                => Between(heap'[i].Mean, heap[i].Mean, arg)]_vars

\* the division has truncated toward the previous mean, with a negative
\* delta: 75 + (-100) / 3 = 75 - 33 = 42
C15_Witness ==
    \E i \in DataIds :
        /\ hist[i] = <<75, 75, -25>>
        /\ heap[i].Mean = 42
        /\ heap[i].Min = -25
        /\ heap[i].Max = 75

====
